---------------------------- MODULE Spec2Model ----------------------------
(***************************************************************************)
(* A model of wgan_model.py: the WGAN-GP training loop train(), the        *)
(* generator's output transform Generator._transform and the critic's      *)
(* one-sided gradient penalty Critic.gradient_penalty.                     *)
(*                                                                         *)
(* Tensors are abstracted as follows.  A network's parameters are a        *)
(* version number: 0 for the freshly constructed network, and every        *)
(* optimizer step yields the next version; load_state_dict installs the    *)
(* saved version.  An optimizer's state is the number of steps it has      *)
(* taken.  Losses and Wasserstein estimates carry no control flow except   *)
(* through the batch counter n_batches, which is modelled exactly.         *)
(***************************************************************************)
EXTENDS Integers, Sequences, FiniteSets, TLC

VARIABLES
    pc,             \* position of the process in construction / train()
    call,           \* number of the train() call in the lineage (1 = first)
    s,              \* specifications.settings
    n,              \* x.size(0), the number of rows passed to train()
    onDevice,       \* generator.to(device), critic.to(device) has run
    generator,      \* [params, requires_grad]
    critic,         \* [params, requires_grad]
    opt_generator,  \* [made, steps]
    opt_critic,     \* [made, steps]
    epoch,          \* loop variable of the epoch loop
    step,           \* global step counter
    batch,          \* batches already consumed in the running inner loop
    n_batches,      \* the averaging denominator
    err,            \* the exception that ended the call, [type, line]
    cpFile,         \* the checkpoint file on disk
    printed,        \* diagnostics lines printed by this call
    saved,          \* epochs at whose end this call wrote the checkpoint
    iterLog,        \* history: inner training iterations of this call
    epochsRun,      \* history: epochs entered along the lineage
    cpEpochsRun,    \* history: epochsRun when cpFile was written
    itersRun,       \* history: inner iterations executed along the lineage
    cpItersRun,     \* history: itersRun when cpFile was written
    tf,             \* one call of Generator._transform
    gp              \* one call of Critic.gradient_penalty

vars == <<pc, call, s, n, onDevice, generator, critic, opt_generator,
          opt_critic, epoch, step, batch, n_batches, err, cpFile, printed,
          saved, iterLog, epochsRun, cpEpochsRun,
          itersRun, cpItersRun, tf, gp>>

-----------------------------------------------------------------------------
(* Bounds of the model. *)

MaxRows == 4
MaxEpochs == 3
MaxCriticSteps == 3
MaxCalls == 2

BatchSizes == {1, 2}
TestSizes == {0, 1}
Intervals == {1, 2}

-----------------------------------------------------------------------------
(* Settings *)

KnownOptimizers == {"AdamHD", "Adam"}

Optimizers == KnownOptimizers \cup {"SGD"}

Settings ==
    [optimizer : Optimizers,
     critic_steps : 1..MaxCriticSteps,
     max_epochs : 0..MaxEpochs,
     batch_size : BatchSizes,
     test_set_size : TestSizes,
     load_checkpoint : {FALSE},
     save_checkpoint : BOOLEAN,
     save_every : Intervals,
     print_every : Intervals]

\* The end-to-end scenario: 1,000 rows, batch_size 32, critic_steps 5,
\* max_epochs 2, test_set_size 16, every other setting at its default.
ScenarioSettings ==
    [optimizer |-> "AdamHD", critic_steps |-> 5, max_epochs |-> 2,
     batch_size |-> 32, test_set_size |-> 16, load_checkpoint |-> FALSE,
     save_checkpoint |-> FALSE, save_every |-> 100, print_every |-> 200]

Scenario == [s |-> ScenarioSettings, n |-> 1000]

\* The calls of train() the model starts from: settings and row count, with
\* the test set no larger than the data.
Configs ==
    {c \in [s : Settings, n : 0..MaxRows] : c.s.test_set_size <= c.n}
        \cup {Scenario}

-----------------------------------------------------------------------------
(* Helpers of train() *)

\* len(DataLoader(d, batch_size)) for a dataset of `rows` rows: the last,
\* partial batch is kept.
NumBatches(rows, batch_size) == (rows + batch_size - 1) \div batch_size

TrainBatches == NumBatches(n - s.test_set_size, s.batch_size)

TestBatches == NumBatches(s.test_set_size, s.batch_size)

\* generator_update = step % s["critic_steps"] == 0
generator_update(st, critic_steps) == st % critic_steps = 0

\* A step counter that is advanced in the critic branch only.
step_critic_only(st, gen_update) == IF gen_update THEN st ELSE st + 1

\* step += 1, after the branches
step_next(st, gen_update) == st + 1

\* A generator whose optimizer steps in the critic branch as well.
generator_always_stepped(g, gen_update) ==
    [params |-> g.params + 1, requires_grad |-> gen_update]

\* The generator after one inner iteration: requires_grad is set to
\* generator_update, and opt_generator.step() runs in the generator branch.
generator_after(g, gen_update) ==
    [params |-> IF gen_update THEN g.params + 1 ELSE g.params,
     requires_grad |-> gen_update]

\* A critic whose parameters are never frozen.
critic_never_frozen(c, gen_update) ==
    [params |-> IF gen_update THEN c.params ELSE c.params + 1,
     requires_grad |-> TRUE]

\* The critic after one inner iteration: requires_grad is set to
\* not generator_update, and opt_critic.step() runs in the critic branch.
critic_after(c, gen_update) ==
    [params |-> IF gen_update THEN c.params ELSE c.params + 1,
     requires_grad |-> ~gen_update]

\* A batch counter that counts the batches of both branches.
n_batches_every_batch(nb, gen_update) == nb + 1

\* n_batches += 1, in the critic branch only
n_batches_next(nb, gen_update) == IF gen_update THEN nb ELSE nb + 1

NoError == [type |-> "none", line |-> 0]

NoCheckpoint == [exists |-> FALSE, epoch |-> 0, step |-> 0,
                 generator_state_dict |-> 0, critic_state_dict |-> 0,
                 opt_generator_state_dict |-> 0, opt_critic_state_dict |-> 0]

FreshNet == [params |-> 0, requires_grad |-> TRUE]

NoOpt == [made |-> FALSE, steps |-> 0]

NoTransform == [phase |-> "off"]

NoPenalty == [phase |-> "off"]


\* A lookup that falls back to a default optimizer for an unknown name.
opt_coerced(name) == TRUE

\* opt = {"AdamHD": AdamHD, "Adam": torch.optim.Adam}[s["optimizer"]]
\* succeeds exactly for the two keys of the dictionary.
opt_lookup(name) == name \in KnownOptimizers

\* start_epoch, step = cp["epoch"], cp["step"]
start_epoch_of(cp) == cp.epoch

\* A load that leaves the step counter at its initial value.
step_not_restored(cp) == 1

\* start_epoch, step = cp["epoch"], cp["step"]
step_of(cp) == cp.step

\* A checkpoint that records the epoch to run next.
checkpoint_next_epoch(e, st, g, c, og, oc) ==
    [exists |-> TRUE, epoch |-> e + 1, step |-> st,
     generator_state_dict |-> g.params, critic_state_dict |-> c.params,
     opt_generator_state_dict |-> og.steps, opt_critic_state_dict |-> oc.steps]

\* The dictionary handed to torch.save at the end of epoch e.
checkpoint(e, st, g, c, og, oc) ==
    [exists |-> TRUE, epoch |-> e, step |-> st,
     generator_state_dict |-> g.params, critic_state_dict |-> c.params,
     opt_generator_state_dict |-> og.steps, opt_critic_state_dict |-> oc.steps]

\* An epoch loop that also runs the epoch numbered max_epochs.
EnterEpoch_inclusive(e, run) ==
    IF e <= s.max_epochs
    THEN /\ pc' = "train_loop"
         /\ epoch' = e
         /\ epochsRun' = Append(run, e)
    ELSE /\ pc' = "done"
         /\ epoch' = epoch
         /\ epochsRun' = run

\* for epoch in range(start_epoch, max_epochs): the loop takes e as its next
\* value, or ends.  `run` is the history of epochs entered so far.
EnterEpoch(e, run) ==
    IF e < s.max_epochs
    THEN /\ pc' = "train_loop"
         /\ epoch' = e
         /\ epochsRun' = Append(run, e)
    ELSE /\ pc' = "done"
         /\ epoch' = epoch
         /\ epochsRun' = run

Raise(type, line) ==
    /\ pc' = "error"
    /\ err' = [type |-> type, line |-> line]

-----------------------------------------------------------------------------
(* Construction and train() *)

Init ==
    /\ \E c \in Configs : s = c.s /\ n = c.n
    /\ pc = "new"
    /\ call = 1
    /\ onDevice = FALSE
    /\ generator = FreshNet
    /\ critic = FreshNet
    /\ opt_generator = NoOpt
    /\ opt_critic = NoOpt
    /\ epoch = 0
    /\ step = 0
    /\ batch = 0
    /\ n_batches = 0
    /\ err = NoError
    /\ cpFile = NoCheckpoint
    /\ printed = << >>
    /\ saved = {}
    /\ iterLog = << >>
    /\ epochsRun = << >>
    /\ cpEpochsRun = << >>
    /\ itersRun = 0
    /\ cpItersRun = 0
    /\ tf = NoTransform
    /\ gp = NoPenalty

\* Specifications(...), Generator(specifications), Critic(specifications):
\* the settings are stored as given, the optimizer name included, and the
\* two networks are built.
Construct ==
    /\ pc = "new"
    /\ pc' = "constructed"
    /\ generator' = FreshNet
    /\ critic' = FreshNet
    /\ UNCHANGED <<call, s, n, onDevice, opt_generator, opt_critic, epoch,
                   step, batch, n_batches, err, cpFile, printed, saved,
                   iterLog, epochsRun, cpEpochsRun,
                   itersRun, cpItersRun, tf, gp>>

\* train(), from entry to the head of the epoch loop.
TrainSetup ==
    /\ pc = "constructed"
    /\ onDevice' = TRUE
    /\ batch' = 0
    /\ n_batches' = 0
    /\ IF ~opt_lookup(s.optimizer)
       THEN /\ Raise("KeyError", 420)
            /\ step' = 1
            /\ UNCHANGED <<generator, critic, opt_generator, opt_critic,
                           epoch, epochsRun, itersRun>>
       ELSE IF ~s.load_checkpoint
       THEN /\ opt_generator' = [made |-> TRUE, steps |-> 0]
            /\ opt_critic' = [made |-> TRUE, steps |-> 0]
            /\ step' = 1
            /\ EnterEpoch(0, << >>)
            /\ itersRun' = 0
            /\ UNCHANGED <<generator, critic, err>>
       ELSE IF ~cpFile.exists
       THEN /\ opt_generator' = [made |-> TRUE, steps |-> 0]
            /\ opt_critic' = [made |-> TRUE, steps |-> 0]
            /\ Raise("FileNotFoundError", 428)
            /\ step' = 1
            /\ UNCHANGED <<generator, critic, epoch, epochsRun, itersRun>>
       ELSE /\ generator' = [generator EXCEPT !.params = cpFile.generator_state_dict]
            /\ opt_generator' = [made |-> TRUE, steps |-> cpFile.opt_generator_state_dict]
            /\ critic' = [critic EXCEPT !.params = cpFile.critic_state_dict]
            /\ opt_critic' = [made |-> TRUE, steps |-> cpFile.opt_critic_state_dict]
            /\ step' = step_of(cpFile)
            /\ EnterEpoch(start_epoch_of(cpFile), cpEpochsRun)
            /\ itersRun' = cpItersRun
            /\ UNCHANGED err
    /\ UNCHANGED <<call, s, n, cpFile, printed, saved, iterLog, cpEpochsRun, cpItersRun,
                   tf, gp>>

\* One inner iteration of the train loop, lines 438-463.
TrainBatch ==
    /\ pc = "train_loop"
    /\ batch < TrainBatches
    /\ LET gen == generator_update(step, s.critic_steps) IN
       /\ critic' = critic_after(critic, gen)
       /\ generator' = generator_after(generator, gen)
       /\ opt_critic' = [opt_critic EXCEPT !.steps = IF gen THEN @ ELSE @ + 1]
       /\ opt_generator' = [opt_generator EXCEPT !.steps = IF gen THEN @ + 1 ELSE @]
       /\ n_batches' = n_batches_next(n_batches, gen)
       /\ step' = step_next(step, gen)
       /\ iterLog' = Append(iterLog, [epoch |-> epoch, step |-> step, generator_update |-> gen])
    /\ batch' = batch + 1
    /\ itersRun' = itersRun + 1
    /\ UNCHANGED <<pc, call, s, n, onDevice, epoch, err, cpFile, printed,
                   saved, epochsRun, cpEpochsRun, cpItersRun, tf, gp>>

\* An averaging step that skips the division when no batch was counted.
AvgTrain_guarded ==
    /\ pc = "train_loop"
    /\ batch = TrainBatches
    /\ pc' = "test_loop"
    /\ batch' = 0
    /\ n_batches' = 0
    /\ UNCHANGED <<call, s, n, onDevice, generator, critic, opt_generator,
                   opt_critic, epoch, step, err, cpFile, printed, saved,
                   iterLog, epochsRun, cpEpochsRun,
                   itersRun, cpItersRun, tf, gp>>

\* WD_train /= n_batches, then WD_test, n_batches = 0, 0
AvgTrain ==
    /\ pc = "train_loop"
    /\ batch = TrainBatches
    /\ IF n_batches = 0
       THEN /\ Raise("ZeroDivisionError", 464)
            /\ UNCHANGED <<batch, n_batches>>
       ELSE /\ pc' = "test_loop"
            /\ batch' = 0
            /\ n_batches' = 0
            /\ UNCHANGED err
    /\ UNCHANGED <<call, s, n, onDevice, generator, critic, opt_generator,
                   opt_critic, epoch, step, cpFile, printed, saved, iterLog,
                   epochsRun, cpEpochsRun,
                   itersRun, cpItersRun, tf, gp>>

\* One iteration of the test loop, under torch.no_grad(), lines 467-474.
TestBatch ==
    /\ pc = "test_loop"
    /\ batch < TestBatches
    /\ batch' = batch + 1
    /\ n_batches' = n_batches + 1
    /\ UNCHANGED <<pc, call, s, n, onDevice, generator, critic, opt_generator,
                   opt_critic, epoch, step, err, cpFile, printed, saved,
                   iterLog, epochsRun, cpEpochsRun,
                   itersRun, cpItersRun, tf, gp>>

\* WD_test /= n_batches
AvgTest ==
    /\ pc = "test_loop"
    /\ batch = TestBatches
    /\ IF n_batches = 0
       THEN Raise("ZeroDivisionError", 475)
       ELSE /\ pc' = "diagnostics"
            /\ UNCHANGED err
    /\ UNCHANGED <<call, s, n, onDevice, generator, critic, opt_generator,
                   opt_critic, epoch, step, batch, n_batches, cpFile, printed,
                   saved, iterLog, epochsRun, cpEpochsRun,
                   itersRun, cpItersRun, tf, gp>>

\* if epoch % s["print_every"] == 0: print(description)
Diagnostics ==
    /\ pc = "diagnostics"
    /\ pc' = "save"
    /\ printed' = IF epoch % s.print_every = 0
                  THEN Append(printed, [epoch |-> epoch, step |-> step])
                  ELSE printed
    /\ UNCHANGED <<call, s, n, onDevice, generator, critic, opt_generator,
                   opt_critic, epoch, step, batch, n_batches, err, cpFile,
                   saved, iterLog, epochsRun, cpEpochsRun,
                   itersRun, cpItersRun, tf, gp>>

\* if s["save_checkpoint"] and epoch % s["save_every"] == 0: torch.save(...),
\* then the epoch loop goes on to its next value.
SaveCheckpoint ==
    /\ pc = "save"
    /\ IF s.save_checkpoint /\ epoch % s.save_every = 0
       THEN /\ cpFile' = checkpoint(epoch, step, generator, critic,
                                    opt_generator, opt_critic)
            /\ saved' = saved \cup {epoch}
            /\ cpEpochsRun' = epochsRun
            /\ cpItersRun' = itersRun
       ELSE UNCHANGED <<cpFile, saved, cpEpochsRun, cpItersRun>>
    /\ batch' = 0
    /\ n_batches' = 0
    /\ EnterEpoch(epoch + 1, epochsRun)
    /\ UNCHANGED <<call, s, n, onDevice, generator, critic, opt_generator,
                   opt_critic, step, err, printed, iterLog, itersRun, tf,
                   gp>>

\* The process is over (train() returned, raised, or was stopped from
\* outside) and the caller reruns it with load_checkpoint set: new network
\* objects, the same settings and data, the checkpoint file as it is on disk.
Restart ==
    /\ pc \in {"train_loop", "test_loop", "diagnostics", "save", "done", "error"}
    /\ call < MaxCalls
    /\ call' = call + 1
    /\ s' = [s EXCEPT !.load_checkpoint = TRUE]
    /\ pc' = "new"
    /\ onDevice' = FALSE
    /\ generator' = FreshNet
    /\ critic' = FreshNet
    /\ opt_generator' = NoOpt
    /\ opt_critic' = NoOpt
    /\ epoch' = 0
    /\ step' = 0
    /\ batch' = 0
    /\ n_batches' = 0
    /\ err' = NoError
    /\ printed' = << >>
    /\ saved' = {}
    /\ iterLog' = << >>
    /\ UNCHANGED <<n, cpFile, epochsRun, cpEpochsRun, itersRun,
                   cpItersRun, tf, gp>>

Next ==
    \/ Construct
    \/ TrainSetup
    \/ TrainBatch
    \/ AvgTrain
    \/ TestBatch
    \/ AvgTest
    \/ Diagnostics
    \/ SaveCheckpoint
    \/ Restart

Spec == Init /\ [][Next]_vars

\* One call of train() that is left alone: nothing stops the process, and
\* the interpreter runs the single thread of control to its end.
TrainNext ==
    \/ Construct
    \/ TrainSetup
    \/ TrainBatch
    \/ AvgTrain
    \/ TestBatch
    \/ AvgTest
    \/ Diagnostics
    \/ SaveCheckpoint

TrainSpec == Init /\ [][TrainNext]_vars /\ WF_vars(TrainNext)

-----------------------------------------------------------------------------
(* Histories read off iterLog *)

\* The positions of iterLog that belong to epoch e.
IterationsOf(e) == {i \in 1..Len(iterLog) : iterLog[i].epoch = e}

CriticIterationsOf(e) == {i \in IterationsOf(e) : ~iterLog[i].generator_update}

GeneratorIterationsOf(e) == {i \in IterationsOf(e) : iterLog[i].generator_update}

\* The positions i..i+critic_steps-1 of iterLog, a run of critic_steps
\* consecutive iterations.
Window(i) == i..(i + s.critic_steps - 1)

\* The complete windows of the log that start at a multiple of critic_steps.
AlignedWindows ==
    {i \in 1..Len(iterLog) :
        /\ iterLog[i].step % s.critic_steps = 0
        /\ i + s.critic_steps - 1 <= Len(iterLog)}

-----------------------------------------------------------------------------
-----------------------------------------------------------------------------
(* C2: a run that saved a checkpoint at the end of epoch e and is          *)
(* restarted with load_checkpoint set goes on without repeating or         *)
(* skipping an epoch: when the resumed call returns, the epochs entered    *)
(* by the original run up to the save, followed by those entered by the    *)
(* resumed run, are 0, 1, ..., max_epochs - 1, each once.                  *)
C2_ResumeNoRepeat ==
    (pc = "done" /\ s.load_checkpoint)
        => epochsRun = [i \in 1..s.max_epochs |-> i - 1]

-----------------------------------------------------------------------------
(* C3 *)

\* The step about to be taken belongs to the running call of train().
InTrain == pc # "new" /\ call' = call

\* The step about to be taken belongs to the epoch loop of the running call.
InEpochLoop == pc \notin {"new", "constructed"} /\ call' = call

\* The step about to be taken is an inner training iteration.
IsIteration == pc = "train_loop" /\ batch < TrainBatches

ParametersFrame ==
    /\ generator'.params # generator.params
          => IsIteration /\ step % s.critic_steps = 0
    /\ critic'.params # critic.params
          => IsIteration /\ step % s.critic_steps # 0
    /\ IsIteration =>
          \/ /\ opt_generator'.steps = opt_generator.steps + 1
             /\ opt_critic'.steps = opt_critic.steps
          \/ /\ opt_critic'.steps = opt_critic.steps + 1
             /\ opt_generator'.steps = opt_generator.steps
    /\ pc \in {"test_loop", "diagnostics", "save"} =>
          /\ generator'.params = generator.params
          /\ critic'.params = critic.params
          /\ step' = step

\* C3, as stated: during train(), the parameters of the two networks change
\* only through the optimizer step of the matching branch of an inner
\* iteration, in which exactly one optimizer steps; the test loop, the
\* diagnostics print and the checkpoint save change no parameter and not
\* the step counter.
C3_ParametersOnlyByOptimizer == [][InTrain => ParametersFrame]_vars

\* C3, amended: the same, from the head of the epoch loop on; before it, the
\* checkpoint load of train() installs the saved parameters.
C3_ParametersOnlyByOptimizerInLoop == [][InEpochLoop => ParametersFrame]_vars

\* Both branches have stepped, the test loop has run, a line was printed
\* and a checkpoint was written.
C3_Witness ==
    /\ pc = "train_loop"
    /\ generator.params > 0
    /\ critic.params > 0
    /\ printed # << >>
    /\ saved # {}

-----------------------------------------------------------------------------
\* The epochs for which this call has printed the diagnostics line.
PrintedEpochs == {printed[i].epoch : i \in 1..Len(printed)}

(* C5: if no training batch of an epoch takes the critic branch, or the    *)
(* test loop sees no batch, train() aborts at the averaging division of    *)
(* that epoch: the call takes no further step (no retry, no later epoch)   *)
(* and has neither printed the diagnostics line nor written a checkpoint   *)
(* for that epoch.                                                         *)
C5_AbortsAtAveraging ==
    /\ [][( /\ pc = "train_loop"
            /\ batch = TrainBatches
            /\ CriticIterationsOf(epoch) = {}
            /\ call' = call )
          => ( /\ pc' = "error"
               /\ err' = [type |-> "ZeroDivisionError", line |-> 464]
               /\ epoch' = epoch )]_vars
    /\ [][( /\ pc = "test_loop"
            /\ batch = TestBatches
            /\ TestBatches = 0
            /\ call' = call )
          => ( /\ pc' = "error"
               /\ err' = [type |-> "ZeroDivisionError", line |-> 475]
               /\ epoch' = epoch )]_vars
    /\ [][(pc = "error" /\ call' = call) => UNCHANGED vars]_vars
    /\ []( (pc = "error" /\ err.type = "ZeroDivisionError")
             => (epoch \notin PrintedEpochs /\ epoch \notin saved) )

\* The call aborted in a later epoch, whose training batches all took the
\* generator branch, after earlier epochs were printed and saved.
C5_Witness ==
    /\ pc = "error"
    /\ err = [type |-> "ZeroDivisionError", line |-> 464]
    /\ epoch > 0
    /\ TrainBatches > 0
    /\ PrintedEpochs # {}
    /\ saved # {}

-----------------------------------------------------------------------------
(* C6 *)

\* The steps a fresh run takes in epoch e, were it to reach it.
StepsOfEpoch(e) == (1 + e * TrainBatches)..((e + 1) * TrainBatches)

\* A fresh call with a known optimizer in which every epoch has a training
\* batch on the critic branch and a test batch.
FreshAndFed ==
    /\ ~s.load_checkpoint
    /\ s.optimizer \in KnownOptimizers
    /\ TestBatches >= 1
    /\ \A e \in 0..(s.max_epochs - 1) :
          \E st \in StepsOfEpoch(e) : st % s.critic_steps # 0

\* C6: a fresh run of train() in which every epoch has at least one
\* critic-branch training batch and one test batch ends without error after
\* exactly max_epochs epochs and max_epochs * B inner iterations, with
\* step = 1 + max_epochs * B; for 1,000 rows, batch_size 32, critic_steps 5,
\* max_epochs 2 and test_set_size 16 that is 2 epochs of B = 31 iterations
\* and step = 63.
C6_FreshRunTerminates ==
    /\ [](FreshAndFed =>
            /\ pc # "error"
            /\ Len(iterLog) <= s.max_epochs * TrainBatches
            /\ pc = "done" =>
                  /\ epochsRun = [i \in 1..s.max_epochs |-> i - 1]
                  /\ Len(iterLog) = s.max_epochs * TrainBatches
                  /\ step = 1 + s.max_epochs * TrainBatches
                  /\ \A e \in 0..(s.max_epochs - 1) :
                        /\ Cardinality(IterationsOf(e)) = TrainBatches
                        /\ CriticIterationsOf(e) # {}
            /\ (pc = "done" /\ n = Scenario.n) =>
                  /\ Len(iterLog) = 62
                  /\ Cardinality(IterationsOf(0)) = 31
                  /\ step = 63)
    /\ (FreshAndFed ~> pc = "done")

\* The end-to-end scenario has run to its end.
C6_Witness ==
    /\ pc = "done"
    /\ FreshAndFed
    /\ n = Scenario.n
    /\ s = Scenario.s
    /\ epochsRun = <<0, 1>>

-----------------------------------------------------------------------------
(* C7 *)

\* C7, as stated: an optimizer name that is not "Adam" or "AdamHD" fails
\* when the configuration and the networks are constructed: construction
\* does not succeed, and train() never gets to touch the networks.
C7_UnknownOptimizerFailsAtConstruction ==
    s.optimizer \notin KnownOptimizers
        => (pc # "constructed" /\ ~onDevice)

\* C7, amended: an unknown optimizer name is stored by the constructors as
\* given and fails in train(), with a KeyError at the optimizer lookup:
\* after train() has moved both networks to the device, before an optimizer
\* is made, a checkpoint is loaded or an iteration runs.  It is never
\* replaced by a known optimizer.
C7_UnknownOptimizerFailsInTrain ==
    s.optimizer \notin KnownOptimizers =>
        /\ pc \in {"new", "constructed", "error"}
        /\ ~opt_generator.made
        /\ ~opt_critic.made
        /\ generator.params = 0
        /\ critic.params = 0
        /\ iterLog = << >>
        /\ onDevice <=> pc = "error"
        /\ pc = "error" => err = [type |-> "KeyError", line |-> 420]

\* train() has raised the KeyError, on a call that would otherwise have run.
C7_Witness ==
    /\ pc = "error"
    /\ err.type = "KeyError"
    /\ s.optimizer \notin KnownOptimizers
    /\ onDevice
    /\ s.max_epochs > 0
    /\ TrainBatches > 0

-----------------------------------------------------------------------------
(* C10 *)

\* The averaging division of the train loop has been passed in this epoch.
PastAvgTrain == pc \in {"test_loop", "diagnostics", "save"}

\* C10, as stated: an epoch in which either branch handles no batch aborts
\* with a division by zero at the averaging: the averaging is passed only
\* by an epoch with a batch on the critic branch and a batch on the
\* generator branch.
C10_EitherBranchEmptyAborts ==
    PastAvgTrain =>
        (CriticIterationsOf(epoch) # {} /\ GeneratorIterationsOf(epoch) # {})

\* C10, amended: an epoch aborts with a division by zero at the averaging
\* of the train loop exactly when none of its batches took the critic
\* branch; an epoch with critic batches but no generator batch passes it.
C10_CriticBranchEmptyAborts ==
    /\ PastAvgTrain => CriticIterationsOf(epoch) # {}
    /\ (pc = "error" /\ err.line = 464) =>
          /\ err.type = "ZeroDivisionError"
          /\ batch = TrainBatches
          /\ CriticIterationsOf(epoch) = {}
    /\ (pc = "train_loop" /\ batch = TrainBatches)
          => (n_batches = 0 <=> CriticIterationsOf(epoch) = {})

\* An epoch with fewer batches than critic_steps, none of them on the
\* generator branch, is past the averaging.
C10_Witness ==
    /\ PastAvgTrain
    /\ TrainBatches < s.critic_steps
    /\ GeneratorIterationsOf(epoch) = {}
    /\ CriticIterationsOf(epoch) # {}

-----------------------------------------------------------------------------
(* Generator._transform *)

\* Bound of the continuous values: raw outputs and bounds lie in
\* -MaxVal..MaxVal, in one common unit.
MaxVal == 1

ContVals == (0 - MaxVal)..MaxVal

\* d_cont, the number of continuous columns
ContDims == {0, 1, 2}

\* The raw outputs of the categorical columns (logits).
LogitVals == {0 - 1, 0, 1}

\* The lists cat_dims of the generators of the model.
CatDimChoices == {<< >>, <<3>>, <<2, 1>>}

\* Probabilities are fixed-point numbers, in units of 1 / Scale.
Scale == 10 ^ 6

Max(a, b) == IF a >= b THEN a ELSE b

Min(a, b) == IF a <= b THEN a ELSE b

RECURSIVE SumSeq(_)
SumSeq(q) == IF q = << >> THEN 0 ELSE Head(q) + SumSeq(Tail(q))

RECURSIVE Concat(_)
Concat(qs) == IF qs = << >> THEN << >> ELSE Head(qs) \o Concat(Tail(qs))

\* hidden.split(sizes, -1): consecutive pieces of the given widths.
RECURSIVE Split(_, _)
Split(q, sizes) ==
    IF sizes = << >> THEN << >>
    ELSE <<SubSeq(q, 1, Head(sizes))>>
            \o Split(SubSeq(q, Head(sizes) + 1, Len(q)), Tail(sizes))

\* Clipping with the two rows of the bounds tensor exchanged.
clip_rows_swapped(v, lower, upper) == Min(Max(v, upper), lower)

\* torch.stack([continuous, lower]).max(0), then
\* torch.stack([continuous, upper]).min(0), for one coordinate.
clip(v, lower, upper) == Min(Max(v, lower), upper)

\* exp(d) for d = 0, 1, 2, ..., in tenths, rounded.
ExpTable == <<10, 27, 74, 201, 546>>

Exp(d) == ExpTable[d + 1]

MinOf(q) == CHOOSE m \in {q[i] : i \in 1..Len(q)} : \A i \in 1..Len(q) : m <= q[i]

\* F.softmax(x, -1) of one block, rounded to the nearest unit of 1 / Scale.
softmax(x) ==
    LET e == [i \in 1..Len(x) |-> Exp(x[i] - MinOf(x))]
        total == SumSeq(e)
    IN  [i \in 1..Len(x) |-> (2 * e[i] * Scale + total) \div (2 * total)]

\* One softmax over the whole categorical part.
renormalize_as_one_block(categorical, cat_dims) == softmax(categorical)

\* torch.cat([F.softmax(x, -1) for x in categorical.split(self.cat_dims, -1)], -1)
renormalize(categorical, cat_dims) ==
    LET blocks == Split(categorical, cat_dims)
    IN  Concat([k \in 1..Len(blocks) |-> softmax(blocks[k])])

\* Generator._transform(hidden) of a generator with the given cont_bounds
\* (<<lower bounds, upper bounds>>) and cat_dims.
transform(hidden, cont_bounds, cat_dims) ==
    LET d_cont == Len(cont_bounds[1])
        d_cat == SumSeq(cat_dims)
        parts == Split(hidden, <<d_cont, d_cat>>)
        continuous == [i \in 1..d_cont |->
                          clip(parts[1][i], cont_bounds[1][i], cont_bounds[2][i])]
        categorical == IF Len(parts[2]) > 0
                       THEN renormalize(parts[2], cat_dims)
                       ELSE parts[2]
    IN  continuous \o categorical

\* The training variables of a process that only evaluates a network.
TrainingIdle ==
    /\ s = Scenario.s
    /\ n = Scenario.n
    /\ pc = "idle"
    /\ call = 1
    /\ onDevice = FALSE
    /\ generator = FreshNet
    /\ critic = FreshNet
    /\ opt_generator = NoOpt
    /\ opt_critic = NoOpt
    /\ epoch = 0
    /\ step = 0
    /\ batch = 0
    /\ n_batches = 0
    /\ err = NoError
    /\ cpFile = NoCheckpoint
    /\ printed = << >>
    /\ saved = {}
    /\ iterLog = << >>
    /\ epochsRun = << >>
    /\ cpEpochsRun = << >>
    /\ itersRun = 0
    /\ cpItersRun = 0

\* A generator as Generator.__init__ leaves it: the bounds tensor of the
\* data wrapper, which orders lower and upper bound in no way, and cat_dims.
InitTransform ==
    /\ TrainingIdle
    /\ gp = NoPenalty
    /\ \E d \in ContDims, dims \in CatDimChoices :
       \E lower \in [1..d -> ContVals], upper \in [1..d -> ContVals] :
          tf = [phase |-> "built", cont_bounds |-> <<lower, upper>>,
                cat_dims |-> dims, hidden |-> << >>, out |-> << >>]

\* self._transform(self.layers[-1](x)) for one row of raw output.
Transform ==
    /\ tf.phase = "built"
    /\ \E c \in [1..Len(tf.cont_bounds[1]) -> ContVals],
          l \in [1..SumSeq(tf.cat_dims) -> LogitVals] :
          tf' = [tf EXCEPT !.phase = "returned",
                           !.hidden = c \o l,
                           !.out = transform(c \o l, tf.cont_bounds, tf.cat_dims)]
    /\ UNCHANGED <<pc, call, s, n, onDevice, generator, critic, opt_generator,
                   opt_critic, epoch, step, batch, n_batches, err, cpFile,
                   printed, saved, iterLog, epochsRun, cpEpochsRun,
                   itersRun, cpItersRun, gp>>

\* The generator is called again.
TransformAgain ==
    /\ tf.phase = "returned"
    /\ tf' = [tf EXCEPT !.phase = "built", !.hidden = << >>, !.out = << >>]
    /\ UNCHANGED <<pc, call, s, n, onDevice, generator, critic, opt_generator,
                   opt_critic, epoch, step, batch, n_batches, err, cpFile,
                   printed, saved, iterLog, epochsRun, cpEpochsRun,
                   itersRun, cpItersRun, gp>>

TransformNext == Transform \/ TransformAgain

TransformSpec == InitTransform /\ [][TransformNext]_vars

-----------------------------------------------------------------------------
(* C4 *)

Returned == tf.phase = "returned"

DCont == Len(tf.cont_bounds[1])

Lower(i) == tf.cont_bounds[1][i]

Upper(i) == tf.cont_bounds[2][i]

ValidBounds == \A i \in 1..DCont : Lower(i) <= Upper(i)

\* C4: for bounds with lower_bound <= upper_bound in every column and any
\* raw output, every continuous coordinate of the result of _transform lies
\* in [lower_bound, upper_bound] of its column, and it is the value that
\* either order of applying the two bounds gives: the maximum with the lower
\* bound of the minimum with the upper bound, and the minimum with the
\* upper bound of the maximum with the lower bound.
C4_ContinuousWithinBounds ==
    (Returned /\ ValidBounds) =>
        \A i \in 1..DCont :
            /\ Lower(i) <= tf.out[i]
            /\ tf.out[i] <= Upper(i)
            /\ tf.out[i] = Max(Min(tf.hidden[i], Upper(i)), Lower(i))
            /\ tf.out[i] = Min(Max(tf.hidden[i], Lower(i)), Upper(i))

\* Two continuous columns with different bounds: one raw value was above
\* its upper bound, the other below its lower bound.
C4_Witness ==
    /\ Returned
    /\ ValidBounds
    /\ DCont = 2
    /\ Lower(1) # Lower(2)
    /\ tf.hidden[1] > Upper(1)
    /\ tf.out[1] = Upper(1)
    /\ tf.hidden[2] < Lower(2)
    /\ tf.out[2] = Lower(2)
    /\ tf.cat_dims # << >>

-----------------------------------------------------------------------------
(* C9 *)

\* The columns of the k-th categorical block of an output row: cat_dims[k]
\* columns, after the continuous columns and the blocks declared before it.
BlockColumns(k) ==
    LET before == DCont + SumSeq(SubSeq(tf.cat_dims, 1, k - 1))
    IN  (before + 1)..(before + tf.cat_dims[k])

RECURSIVE SumOver(_, _)
SumOver(f, S) ==
    IF S = {} THEN 0
    ELSE LET x == CHOOSE y \in S : TRUE IN f[x] + SumOver(f, S \ {x})

\* The floating tolerance 1e-5, in units of 1 / Scale.
Tolerance == Scale \div (10 ^ 5)

\* C9: in every output of the generator the entries of each categorical
\* variable's block (cat_dims[k] columns wide, in declaration order after
\* the d_cont continuous columns) are non-negative and sum to 1 within the
\* floating tolerance.
C9_CategoricalBlocksOnSimplex ==
    Returned =>
        /\ Len(tf.out) = DCont + SumSeq(tf.cat_dims)
        /\ \A k \in 1..Len(tf.cat_dims) :
              /\ \A j \in BlockColumns(k) : tf.out[j] >= 0
              /\ SumOver(tf.out, BlockColumns(k)) >= Scale - Tolerance
              /\ SumOver(tf.out, BlockColumns(k)) <= Scale + Tolerance

\* A row with continuous columns and two categorical blocks, the first with
\* unequal raw values.
C9_Witness ==
    /\ Returned
    /\ DCont > 0
    /\ Len(tf.cat_dims) = 2
    /\ tf.hidden[DCont + 1] # tf.hidden[DCont + 2]
    /\ tf.out[DCont + 1] # tf.out[DCont + 2]

-----------------------------------------------------------------------------
(* Critic.gradient_penalty *)

\* Bounds of a batch of gradients: 1..MaxBatchRows rows of d_x + d_context
\* = 2 entries, each in -MaxGrad..MaxGrad halves.
MaxBatchRows == 2
MaxGrad == 2

GradVals == (0 - MaxGrad)..MaxGrad

GradRows == [1..2 -> GradVals]

\* Norms are fixed-point numbers in tenths.

\* The integer square root.
ISqrt(x) == CHOOSE r \in 0..x : r * r <= x /\ x < (r + 1) * (r + 1)

\* gradients.norm(2, dim=1) of one row of gradients given in halves, in
\* tenths, rounded down: sqrt(sum of squares) / 2 * 10.
norm(row) == ISqrt(SumSeq([i \in 1..Len(row) |-> row[i] * row[i]]) * 25)

\* The two-sided penalty of a row, (norm - 1).pow(2).
row_penalty_two_sided(nrm) == (nrm - 10) * (nrm - 10)

\* The one-sided penalty of a row, F.relu(norm - 1).
row_penalty(nrm) == Max(0, nrm - 10)

\* .mean() over the rows, in hundredths of the unit of the values.
mean(vals) == (SumSeq(vals) * 100) \div Len(vals)

\* The value gradient_penalty returns for a batch whose interpolated points
\* have the given critic gradients.
gradient_penalty(gradients) ==
    mean([r \in 1..Len(gradients) |-> row_penalty(norm(gradients[r]))])

\* A batch of real, generated and context rows has been handed to
\* gradient_penalty.
InitPenalty ==
    /\ TrainingIdle
    /\ tf = NoTransform
    /\ \E rows \in 1..MaxBatchRows :
          gp = [phase |-> "called", rows |-> rows, gradients |-> << >>, penalty |-> 0]

\* Lines 386-394: the gradients of the critic at the interpolated points
\* are whatever the critic's weights and the drawn alpha make them.
GradientPenalty ==
    /\ gp.phase = "called"
    /\ \E g \in [1..gp.rows -> GradRows] :
          gp' = [gp EXCEPT !.phase = "returned",
                           !.gradients = g,
                           !.penalty = gradient_penalty(g)]
    /\ UNCHANGED <<pc, call, s, n, onDevice, generator, critic, opt_generator,
                   opt_critic, epoch, step, batch, n_batches, err, cpFile,
                   printed, saved, iterLog, epochsRun, cpEpochsRun,
                   itersRun, cpItersRun, tf>>

\* The next batch of the same size is handed to gradient_penalty.
GradientPenaltyAgain ==
    /\ gp.phase = "returned"
    /\ gp' = [gp EXCEPT !.phase = "called", !.gradients = << >>, !.penalty = 0]
    /\ UNCHANGED <<pc, call, s, n, onDevice, generator, critic, opt_generator,
                   opt_critic, epoch, step, batch, n_batches, err, cpFile,
                   printed, saved, iterLog, epochsRun, cpEpochsRun,
                   itersRun, cpItersRun, tf>>

PenaltyNext == GradientPenalty \/ GradientPenaltyAgain

PenaltySpec == InitPenalty /\ [][PenaltyNext]_vars

-----------------------------------------------------------------------------
(* C8 *)

\* Four times the squared Euclidean norm of row r of the gradients (the
\* entries are halves).
SquaredNorm4(r) ==
    SumSeq([i \in 1..Len(gp.gradients[r]) |->
               gp.gradients[r][i] * gp.gradients[r][i]])

\* C8: gradient_penalty returns a non-negative value for every batch: a row
\* whose gradient norm is at most 1 contributes 0, a row whose norm is above
\* 1 contributes a positive amount, so the mean is >= 0 and is 0 exactly
\* when every row's gradient norm is at most 1.
C8_PenaltyNonNegative ==
    gp.phase = "returned" =>
        /\ gp.penalty >= 0
        /\ gp.penalty = 0 <=> \A r \in 1..gp.rows : SquaredNorm4(r) <= 4

\* A batch with a row of norm below 1 and a row of norm above 1.
C8_Witness ==
    /\ gp.phase = "returned"
    /\ gp.rows = 2
    /\ SquaredNorm4(1) < 4
    /\ SquaredNorm4(2) > 4
    /\ gp.penalty > 0

-----------------------------------------------------------------------------
(* C11 *)

\* The epochs this call has entered.
EpochsOfCall == {iterLog[i].epoch : i \in 1..Len(iterLog)}

\* The epochs of this call whose end, the checkpoint save included, is past.
EpochsEnded == {e \in EpochsOfCall : e < epoch \/ pc = "done"}

\* Epoch e is one at whose end a checkpoint is due.
SaveDue(e) == s.save_checkpoint /\ e % s.save_every = 0

\* The train loop and the test loop of the running epoch have both finished.
LoopsFinished ==
    /\ Cardinality(IterationsOf(epoch)) = TrainBatches
    /\ batch = TestBatches
    /\ iterLog # << >>
    /\ iterLog[Len(iterLog)].epoch = epoch

\* What a checkpoint written now has to hold: the running epoch, the step
\* counter as the last training iteration left it, and the state of the two
\* networks and the two optimizers as they are.
CheckpointNow ==
    [exists |-> TRUE, epoch |-> epoch, step |-> iterLog[Len(iterLog)].step + 1,
     generator_state_dict |-> generator.params,
     critic_state_dict |-> critic.params,
     opt_generator_state_dict |-> opt_generator.steps,
     opt_critic_state_dict |-> opt_critic.steps]

\* C11: a checkpoint is written at the end of epoch e if and only if
\* save_checkpoint is set and e % save_every = 0, after the training loop
\* and the test loop of that epoch have both finished; it records epoch = e,
\* step as the last training iteration of epoch e left it, and the
\* generator, the critic and both optimizer states as they are then.
C11_CheckpointWhenDue ==
    /\ [][(pc = "save" /\ call' = call) =>
            /\ LoopsFinished
            /\ SaveDue(epoch) =>
                  /\ cpFile' = CheckpointNow
                  /\ saved' = saved \cup {epoch}
            /\ ~SaveDue(epoch) =>
                  /\ cpFile' = cpFile
                  /\ saved' = saved]_vars
    /\ [][(cpFile' # cpFile \/ (saved' # saved /\ call' = call))
            => (pc = "save" /\ SaveDue(epoch))]_vars
    /\ [](\A e \in EpochsEnded : e \in saved <=> SaveDue(e))
    /\ [](saved \subseteq EpochsOfCall)

\* A call that has ended an epoch with a checkpoint and a later epoch
\* without one; the file holds the checkpoint of the earlier epoch.
C11_Witness ==
    /\ pc = "train_loop"
    /\ epoch = 2
    /\ saved = {0}
    /\ s.save_every = 2
    /\ cpFile.exists
    /\ cpFile.epoch = 0
    /\ cpFile.step < step
    /\ cpFile.generator_state_dict > 0

-----------------------------------------------------------------------------
(* C12 *)

\* The running call is in or past its epoch loop.
InOrPastLoop ==
    \/ pc \in {"train_loop", "test_loop", "diagnostics", "save", "done"}
    \/ pc = "error" /\ err.type = "ZeroDivisionError"

\* The inner iterations executed along the lineage up to the checkpoint
\* this call started from (none for a fresh call).
ItersBeforeCall == itersRun - Len(iterLog)

\* C12: along a lineage of train() calls, a fresh run followed by resumes
\* from the checkpoint file, the step counter is 1 plus the number of inner
\* iterations executed up to the loaded checkpoint plus those executed
\* since; a load sets step to the saved value, never to 1, so the k-th
\* iteration of the lineage is a generator update exactly when
\* k % critic_steps = 0, over a resume as within a run.
C12_StepCountsLineageIterations ==
    /\ [](InOrPastLoop =>
            /\ step = 1 + itersRun
            /\ \A i \in 1..Len(iterLog) :
                  /\ iterLog[i].step = ItersBeforeCall + i
                  /\ iterLog[i].generator_update
                        = ((ItersBeforeCall + i) % s.critic_steps = 0))
    /\ [][(pc = "constructed" /\ pc' \in {"train_loop", "done"})
            => step' = IF s.load_checkpoint THEN cpFile.step ELSE 1]_vars
    /\ [](cpFile.exists => cpFile.step = 1 + cpItersRun)

\* A resumed call, loaded from a checkpoint taken after some iterations, has
\* run a generator update whose window of critic_steps steps began before
\* the checkpoint.
C12_Witness ==
    /\ s.load_checkpoint
    /\ pc = "train_loop"
    /\ ItersBeforeCall > 0
    /\ s.critic_steps > 1
    /\ \E i \in 1..Len(iterLog) :
          /\ iterLog[i].generator_update
          /\ i < s.critic_steps

-----------------------------------------------------------------------------
(* C13 *)

\* The branch of the latest inner iteration of this call was the generator
\* update.
LastWasGeneratorUpdate == iterLog[Len(iterLog)].step % s.critic_steps = 0

\* C13: from the first inner iteration of a call of train() on, exactly one
\* of the two networks has its parameters marked trainable: the generator's
\* when the iteration is a generator update, the critic's when it is a
\* critic update; nothing in train() sets the flags back, so a call that
\* returns after at least one iteration leaves frozen the network that did
\* not take the last step.
C13_ExactlyOneTrainable ==
    /\ []((pc # "new" /\ iterLog # << >>) =>
            /\ generator.requires_grad # critic.requires_grad
            /\ generator.requires_grad <=> LastWasGeneratorUpdate
            /\ critic.requires_grad <=> ~LastWasGeneratorUpdate)
    /\ [][(call' = call /\ ~(pc = "train_loop" /\ batch < TrainBatches)) =>
            /\ generator'.requires_grad = generator.requires_grad
            /\ critic'.requires_grad = critic.requires_grad]_vars

\* train() has returned after a last iteration on the generator branch, and
\* the critic is left frozen; earlier iterations had frozen the generator.
C13_Witness ==
    /\ pc = "done"
    /\ iterLog # << >>
    /\ LastWasGeneratorUpdate
    /\ ~critic.requires_grad
    /\ generator.requires_grad
    /\ critic.params > 0

=============================================================================
